---- MODULE Spec2Model ----
(***************************************************************************)
(* Credential resolution, model catalog and streaming chat proxy of the   *)
(* session viewer (crates/session-core: cli_config.rs, model_list.rs,     *)
(* quick_chat.rs).                                                         *)
(*                                                                         *)
(* Rust values are represented as follows:                                 *)
(*   Option<T>          None is <<>>, Some(x) is <<x>>                     *)
(*   String             a TLA+ string; "" is the empty string              *)
(*   Result<T, String>  a record with a field ok                           *)
(*   a model id or name a sequence of string fragments (so that            *)
(*                      to_lowercase and contains act on its content)      *)
(*   one SSE line       a sequence of string fragments                     *)
(***************************************************************************)
EXTENDS Integers, Sequences, FiniteSets, TLC

VARIABLES
    homeDir,       \* dirs::home_dir() is Some
    settingsFile,  \* ~/.claude/settings.json: how it reads, and its content
    processEnv,    \* the process environment: ANTHROPIC_API_KEY, ANTHROPIC_BASE_URL
    remote,        \* what the server answers to GET /v1/models
    cfgResult,     \* what read_cli_config returned
    lmPc,          \* list_models: "idle", "fetching" (awaiting the GET), "returned"
    lmArgs,        \* list_models: its api_key and base_url arguments
    lmKey,         \* list_models: resolved_key
    lmUrl,         \* list_models: resolved_url
    lmRequests,    \* list_models: GET /v1/models requests sent
    lmResult,      \* list_models: the Result it returned
    chatPc,        \* stream_chat: "Idle", "Connecting", "Streaming", "Returned",
                   \* "Cancelled"
    chatCred,      \* stream_chat: (api_key, base_url) from get_credentials
    chatRequests,  \* stream_chat: POST /v1/messages requests sent
    chatStatus,    \* stream_chat: resp.status() of the response, 0 before it
    chatBody,      \* stream_chat: the lines of the response body
    chatPos,       \* stream_chat: lines taken from the body so far
    chunks,        \* stream_chat: the arguments of the on_chunk calls, in order
    chatIoError,   \* stream_chat: lines.next_line() returned Err
    chatDone,      \* stream_chat: the loop ended at a [DONE] line
    chatResult,    \* stream_chat: the Result it returned
    chatErrorBody, \* stream_chat: the body of a response that is not a success,
                   \* and whether resp.text() could read it
    chatCancelled, \* stream_chat: the caller dropped the future
    mergePc,       \* merge_models: "idle" or "done"
    mergeArgs,     \* merge_models: its arguments builtin and api_models
    mergeResult,   \* merge_models: the list it returned
    maskPc,        \* mask_key: "idle" or "done"
    maskKey,       \* mask_key: its argument, a sequence of characters
    maskResult,    \* mask_key: the string it returned, or that it panicked
    calls,         \* the stream_chat calls in flight together: the locals of each
    reqPc,         \* the request body of stream_chat: "idle" or "built"
    reqMessages,   \* stream_chat: the messages argument
    reqBody,       \* stream_chat: the JSON body of the POST
    bmFs,          \* the bookmark store on disk: the store file and its .tmp file
    bmProc,        \* the bookmark calls: for each caller the call it is in
    mdFs,          \* the metadata file of one project: whether it exists, and its text
    mdLast,        \* history: the last metadata call, its arguments, the file before it, its result
    bmSaved        \* history: the text of the store at first, and the texts handed to save_bookmarks

envVars == <<homeDir, settingsFile, processEnv, remote>>
cfgVars == <<cfgResult>>
lmVars == <<lmPc, lmArgs, lmKey, lmUrl, lmRequests, lmResult>>
chatVars == <<chatPc, chatCred, chatRequests, chatStatus, chatBody, chatPos, chunks,
              chatIoError, chatDone, chatResult, chatErrorBody, chatCancelled>>
mergeVars == <<mergePc, mergeArgs, mergeResult>>
maskVars == <<maskPc, maskKey, maskResult>>
concVars == <<calls>>
reqVars == <<reqPc, reqMessages, reqBody>>
bmVars == <<bmFs, bmProc, bmSaved>>
mdVars == <<mdFs, mdLast>>
otherVars == <<mergeVars, maskVars, concVars, reqVars, bmVars, mdVars>>
vars == <<envVars, cfgVars, lmVars, chatVars, otherVars>>

----
\* Option<T> and the combinators the code uses on it

None == <<>>

Some(x) == <<x>>

\* Option::filter(|s| !s.is_empty())
FilterNonEmpty(o) == IF o /= None /\ o[1] /= "" THEN o ELSE None

\* Option::or_else
OrElse(o, alt) == IF o /= None THEN o ELSE alt

\* Option::unwrap_or / unwrap_or_default / unwrap_or_else
UnwrapOr(o, d) == IF o /= None THEN o[1] ELSE d

----
\* The world the resolver reads

DEFAULT_BASE_URL == "https://api.anthropic.com"

\* ClaudeSettings::default(): an empty env map and no model
DefaultSettings ==
    [env |-> [ANTHROPIC_AUTH_TOKEN |-> None,
              ANTHROPIC_API_KEY |-> None,
              ANTHROPIC_BASE_URL |-> None],
     model |-> None]

\* The contents a well-formed settings.json can have: each key of env absent,
\* empty or non-empty.
SettingsContents ==
    [env : [ANTHROPIC_AUTH_TOKEN : {None, Some(""), Some("A")},
            ANTHROPIC_API_KEY : {None, Some(""), Some("B")},
            ANTHROPIC_BASE_URL : {None, Some(""), Some("http://settings")}],
     model : {None, Some("sonnet")}]

\* The settings file: it is read and parsed ("ok"), or it is missing, cannot
\* be read, or is not JSON of the ClaudeSettings shape.
SettingsFiles ==
    [status : {"ok"}, content : SettingsContents]
    \cup [status : {"missing", "unreadable", "unparseable"},
          content : {DefaultSettings}]

ProcessEnvs ==
    [ANTHROPIC_API_KEY : {None, Some(""), Some("C")},
     ANTHROPIC_BASE_URL : {None, Some(""), Some("http://env")}]

----
\* cli_config.rs

\* read_json_file: None when read_to_string or serde_json::from_str fails
read_json_file(f) == IF f.status = "ok" THEN Some(f.content) ELSE None

ConfigResult(ok, err, key, url, model) ==
    [ok |-> ok, err |-> err, api_key |-> key, base_url |-> url,
     default_model |-> model]

\* read_claude_config with the settings file required: an Err where the file
\* does not read
read_claude_config_strict(h, f, e) ==
    IF ~h \/ read_json_file(f) = None
    THEN ConfigResult(FALSE, "Cannot determine home directory", "", "", "")
    ELSE LET settings == read_json_file(f)[1]
         IN  ConfigResult(TRUE, "",
                 UnwrapOr(OrElse(OrElse(FilterNonEmpty(settings.env.ANTHROPIC_AUTH_TOKEN),
                                        FilterNonEmpty(settings.env.ANTHROPIC_API_KEY)),
                                 FilterNonEmpty(e.ANTHROPIC_API_KEY)), ""),
                 UnwrapOr(OrElse(FilterNonEmpty(settings.env.ANTHROPIC_BASE_URL),
                                 FilterNonEmpty(e.ANTHROPIC_BASE_URL)),
                          DEFAULT_BASE_URL),
                 UnwrapOr(settings.model, ""))

\* read_claude_config: Err only without a home directory; a settings file
\* that does not read is ClaudeSettings::default()
read_claude_config(h, f, e) ==
    IF ~h
    THEN ConfigResult(FALSE, "Cannot determine home directory", "", "", "")
    ELSE LET settings == UnwrapOr(read_json_file(f), DefaultSettings)
             api_key ==
                 UnwrapOr(OrElse(OrElse(FilterNonEmpty(settings.env.ANTHROPIC_AUTH_TOKEN),
                                        FilterNonEmpty(settings.env.ANTHROPIC_API_KEY)),
                                 FilterNonEmpty(e.ANTHROPIC_API_KEY)), "")
             base_url ==
                 UnwrapOr(OrElse(FilterNonEmpty(settings.env.ANTHROPIC_BASE_URL),
                                 FilterNonEmpty(e.ANTHROPIC_BASE_URL)),
                          DEFAULT_BASE_URL)
             default_model == UnwrapOr(settings.model, "")
         IN  ConfigResult(TRUE, "", api_key, base_url, default_model)

\* get_credentials: the key and URL of read_claude_config when it is Ok with
\* a non-empty key, else the empty key and the default URL
get_credentials(h, f, e) ==
    LET r == read_claude_config(h, f, e)
    IN  IF r.ok /\ r.api_key /= ""
        THEN <<r.api_key, r.base_url>>
        ELSE <<"", DEFAULT_BASE_URL>>

\* The characters of a key: ASCII ones of one byte in UTF-8, and one of two
KeyChars == {"k", "é"}

MaxKeyLen == 9

Keys == UNION { [1..n -> KeyChars] : n \in 0..MaxKeyLen }

\* The UTF-8 bytes of a character: each byte names its character and whether
\* it is the first byte of it
Utf8(c) ==
    IF c = "é"
    THEN << [char |-> c, first |-> TRUE], [char |-> c, first |-> FALSE] >>
    ELSE << [char |-> c, first |-> TRUE] >>

\* The bytes of a str
RECURSIVE Bytes(_)
Bytes(key) == IF key = <<>> THEN <<>> ELSE Utf8(Head(key)) \o Bytes(Tail(key))

\* str::is_char_boundary(i): the start, the end, or the first byte of a character
is_char_boundary(bytes, i) ==
    \/ i = 0
    \/ i = Len(bytes)
    \/ i < Len(bytes) /\ bytes[i + 1].first

\* The characters of a slice of bytes that starts and ends at boundaries
Chars(bytes) ==
    LET firsts == SelectSeq(bytes, LAMBDA b : b.first)
    IN  [i \in 1..Len(firsts) |-> firsts[i].char]

\* "*".repeat(n)
RECURSIVE Stars(_)
Stars(n) == IF n = 0 THEN <<>> ELSE <<"*">> \o Stars(n - 1)

MaskResult(panicked, out) == [panicked |-> panicked, out |-> out]

\* mask_key: len is the length in bytes, and &key[..3] and &key[len - 4..]
\* panic when the index is inside a character
mask_key(key) ==
    LET bytes == Bytes(key)
        len == Len(bytes)
    IN  IF key = <<>> THEN MaskResult(FALSE, <<>>)
        ELSE IF len <= 8 THEN MaskResult(FALSE, Stars(len))
        ELSE IF ~is_char_boundary(bytes, 3) \/ ~is_char_boundary(bytes, len - 4)
        THEN MaskResult(TRUE, <<>>)
        ELSE MaskResult(FALSE,
                        Chars(SubSeq(bytes, 1, 3)) \o <<".", ".", ".">>
                            \o Chars(SubSeq(bytes, len - 3, len)))

\* A call of mask_key (read_cli_config calls it with the resolved key)
MaskKey ==
    /\ maskPc = "idle"
    /\ maskResult' = mask_key(maskKey)
    /\ maskPc' = "done"
    /\ UNCHANGED <<maskKey, mergeVars, concVars, reqVars, bmVars, mdVars, envVars, cfgVars, lmVars, chatVars>>

NoConfig == [called |-> FALSE, ok |-> FALSE, err |-> "", has_api_key |-> FALSE,
             base_url |-> "", default_model |-> ""]

\* read_cli_config: the CliConfig of read_claude_config, or its error
\* (api_key_masked and config_path are not carried)
ReadCliConfig ==
    /\ ~cfgResult.called
    /\ LET r == read_claude_config(homeDir, settingsFile, processEnv)
       IN  cfgResult' = [called |-> TRUE, ok |-> r.ok, err |-> r.err,
                         has_api_key |-> (r.ok /\ r.api_key /= ""),
                         base_url |-> r.base_url,
                         default_model |-> r.default_model]
    /\ UNCHANGED <<envVars, otherVars, lmVars, chatVars>>

----
\* model_list.rs

\* str::to_lowercase, fragment by fragment
LowerFragment(x) ==
    CASE x = "CLAUDE" -> "claude"
      [] x = "Claude" -> "claude"
      [] x = "Opus" -> "opus"
      [] x = "SONNET" -> "sonnet"
      [] OTHER -> x

to_lowercase(id) == [i \in 1..Len(id) |-> LowerFragment(id[i])]

\* str::contains for a word that is one fragment
contains(id, word) == \E i \in 1..Len(id) : id[i] = word

\* infer_group
infer_group(id) ==
    LET lower == to_lowercase(id)
    IN  IF contains(lower, "opus") THEN "Claude Opus"
        ELSE IF contains(lower, "sonnet") THEN "Claude Sonnet"
        ELSE IF contains(lower, "haiku") THEN "Claude Haiku"
        ELSE "Other"

ModelInfo(id, name, group, created) ==
    [id |-> id, name |-> name, provider |-> "anthropic", group |-> group,
     created |-> created]

\* builtin_claude_models
builtin_claude_models ==
    << ModelInfo(<<"claude", "-", "sonnet", "-4-6">>, <<"Sonnet 4.6">>, "Claude Sonnet", None),
       ModelInfo(<<"claude", "-", "opus", "-4-6">>, <<"Opus 4.6">>, "Claude Opus", None),
       ModelInfo(<<"claude", "-", "haiku", "-4-5">>, <<"Haiku 4.5">>, "Claude Haiku", None) >>

\* chrono::DateTime::parse_from_rfc3339(ts).ok().map(|dt| dt.timestamp()):
\* a created_at string is a record saying whether it parses and to what
parse_from_rfc3339(ts) == IF ts.valid THEN Some(ts.timestamp) ELSE None

\* The closure of fetch_anthropic_models that maps an AnthropicModel to a ModelInfo
ToModelInfo(m) ==
    ModelInfo(m.id,
              UnwrapOr(m.display_name, m.id),
              infer_group(m.id),
              IF m.created_at = None THEN None
              ELSE parse_from_rfc3339(m.created_at[1]))

\* retain without to_lowercase: only the ids that spell "claude" in lower case
RECURSIVE RetainClaudeCaseSensitive(_)
RetainClaudeCaseSensitive(ms) ==
    IF ms = <<>> THEN <<>>
    ELSE IF contains(Head(ms).id, "claude")
         THEN <<Head(ms)>> \o RetainClaudeCaseSensitive(Tail(ms))
         ELSE RetainClaudeCaseSensitive(Tail(ms))

\* Vec::retain(|m| m.id.to_lowercase().contains("claude"))
RECURSIVE RetainClaude(_)
RetainClaude(ms) ==
    IF ms = <<>> THEN <<>>
    ELSE IF contains(to_lowercase(Head(ms).id), "claude")
         THEN <<Head(ms)>> \o RetainClaude(Tail(ms))
         ELSE RetainClaude(Tail(ms))

\* Option<i64>::cmp(a, b) = Less: None is below every Some
OptionLess(a, b) ==
    \/ a = None /\ b /= None
    \/ a /= None /\ b /= None /\ a[1] < b[1]

\* An insertion that puts m before the elements that compare equal to it
RECURSIVE InsertByCreatedBeforeEqual(_, _)
InsertByCreatedBeforeEqual(sorted, m) ==
    IF sorted = <<>> THEN <<m>>
    ELSE IF ~OptionLess(m.created, Head(sorted).created)
         THEN <<m>> \o sorted
         ELSE <<Head(sorted)>> \o InsertByCreatedBeforeEqual(Tail(sorted), m)

\* Insert m into a list sorted by |a, b| b.created.cmp(&a.created), after
\* every element that does not compare greater than m (stability)
RECURSIVE InsertByCreated(_, _)
InsertByCreated(sorted, m) ==
    IF sorted = <<>> THEN <<m>>
    ELSE IF OptionLess(Head(sorted).created, m.created)
         THEN <<m>> \o sorted
         ELSE <<Head(sorted)>> \o InsertByCreated(Tail(sorted), m)

\* Vec::sort_by(|a, b| b.created.cmp(&a.created)): stable, created descending
RECURSIVE SortByCreatedDesc(_)
SortByCreatedDesc(ms) ==
    IF ms = <<>> THEN <<>>
    ELSE InsertByCreated(SortByCreatedDesc(SubSeq(ms, 1, Len(ms) - 1)), ms[Len(ms)])

\* fetch_anthropic_models: Err for a request that fails, a status that is not
\* a success and a body that does not parse; else the entries mapped, the
\* Claude ones retained, sorted
fetch_anthropic_models(resp) ==
    IF resp.kind /= "ok"
    THEN [ok |-> FALSE, models |-> <<>>]
    ELSE [ok |-> TRUE,
          models |-> SortByCreatedDesc(RetainClaude(
                         [i \in 1..Len(resp.data) |-> ToModelInfo(resp.data[i])]))]

\* merge_models
RECURSIVE AppendExtras(_, _, _)
AppendExtras(result, builtin_ids, api_models) ==
    IF api_models = <<>> THEN result
    ELSE AppendExtras(IF Head(api_models).id \notin builtin_ids
                      THEN Append(result, Head(api_models))
                      ELSE result,
                      builtin_ids, Tail(api_models))

\* A merge in which a remote entry replaces the built-in entry of its id
merge_models_replacing(builtin, api_models) ==
    [i \in 1..Len(builtin) |->
        IF \E j \in 1..Len(api_models) : api_models[j].id = builtin[i].id
        THEN api_models[CHOOSE j \in 1..Len(api_models) : api_models[j].id = builtin[i].id]
        ELSE builtin[i]]
    \o AppendExtras(<<>>, {builtin[i].id : i \in 1..Len(builtin)}, api_models)

merge_models(builtin, api_models) ==
    AppendExtras(builtin, {builtin[i].id : i \in 1..Len(builtin)}, api_models)

\* The lists merge_models is applied to: entries of three ids, the built-in
\* ones and the remote ones told apart by their name
MaxMerge == 2

MergeIds == { <<"a">>, <<"b">>, <<"c">> }

MergeLists(origin) ==
    UNION { [1..n -> { ModelInfo(id, <<origin>>, "Other", None) : id \in MergeIds }] :
                n \in 0..MaxMerge }

\* A call of merge_models
MergeModels ==
    /\ mergePc = "idle"
    /\ mergeResult' = merge_models(mergeArgs.builtin, mergeArgs.api_models)
    /\ mergePc' = "done"
    /\ UNCHANGED <<mergeArgs, maskVars, concVars, reqVars, bmVars, mdVars, envVars, cfgVars, lmVars, chatVars>>

\* The branch of list_models that resolves (resolved_key, resolved_url)
ResolvedKeyUrl(api_key, base_url, h, f, e) ==
    IF api_key = "" /\ base_url = ""
    THEN LET cli == get_credentials(h, f, e)
             final_key == IF cli[1] = ""
                          THEN UnwrapOr(e.ANTHROPIC_API_KEY, "")
                          ELSE cli[1]
         IN  <<final_key, cli[2]>>
    ELSE LET key == IF api_key = ""
                    THEN UnwrapOr(e.ANTHROPIC_API_KEY, "")
                    ELSE api_key
             url == IF base_url = ""
                    THEN UnwrapOr(e.ANTHROPIC_BASE_URL, DEFAULT_BASE_URL)
                    ELSE base_url
         IN  <<key, url>>

\* The entries a /v1/models response can list: a built-in id, ids in other
\* letter cases, an id of another provider, timestamps that are equal, absent
\* or do not parse
MaxRemote == 3

RemoteEntries ==
    { [id |-> <<"claude", "-", "opus", "-4-6">>, display_name |-> Some(<<"Opus">>),
       created_at |-> Some([valid |-> TRUE, timestamp |-> 2])],
      [id |-> <<"CLAUDE", "-", "SONNET", "-3-5">>, display_name |-> None,
       created_at |-> Some([valid |-> TRUE, timestamp |-> 1])],
      [id |-> <<"Claude", "-", "haiku", "-3">>, display_name |-> None,
       created_at |-> Some([valid |-> TRUE, timestamp |-> 1])],
      [id |-> <<"claude", "-", "instant">>, display_name |-> None,
       created_at |-> Some([valid |-> FALSE, timestamp |-> 0])],
      [id |-> <<"claude", "-2">>, display_name |-> Some(<<"Claude 2">>),
       created_at |-> None],
      [id |-> <<"gpt", "-4">>, display_name |-> Some(<<"GPT">>),
       created_at |-> Some([valid |-> TRUE, timestamp |-> 3])] }

RemoteLists == UNION { [1..n -> RemoteEntries] : n \in 0..MaxRemote }

FailedResponses ==
    { [kind |-> k, data |-> <<>>] : k \in {"transport_error", "http_error", "bad_body"} }

Responses == FailedResponses \cup { [kind |-> "ok", data |-> d] : d \in RemoteLists }

NoResult == [ok |-> FALSE, models |-> <<>>]

\* list_models that sends the GET whatever the key
ListModelsCallAlwaysFetches ==
    /\ lmPc = "idle"
    /\ \E api_key \in {"", "E"}, base_url \in {"", "http://explicit"} :
        LET r == ResolvedKeyUrl(api_key, base_url, homeDir, settingsFile, processEnv)
        IN  /\ lmArgs' = [api_key |-> api_key, base_url |-> base_url]
            /\ lmKey' = r[1]
            /\ lmUrl' = r[2]
    /\ lmPc' = "fetching"
    /\ lmRequests' = lmRequests + 1
    /\ UNCHANGED lmResult
    /\ UNCHANGED <<envVars, otherVars, cfgVars, chatVars>>

\* list_models up to its first await: the credentials are resolved; an empty
\* key returns the built-in models, any other key sends GET {url}/v1/models
ListModelsCall ==
    /\ lmPc = "idle"
    /\ \E api_key \in {"", "E"}, base_url \in {"", "http://explicit"} :
        LET r == ResolvedKeyUrl(api_key, base_url, homeDir, settingsFile, processEnv)
        IN  /\ lmArgs' = [api_key |-> api_key, base_url |-> base_url]
            /\ lmKey' = r[1]
            /\ lmUrl' = r[2]
            /\ IF r[1] = ""
               THEN /\ lmPc' = "returned"
                    /\ lmResult' = [ok |-> TRUE, models |-> builtin_claude_models]
                    /\ UNCHANGED lmRequests
               ELSE /\ lmPc' = "fetching"
                    /\ lmRequests' = lmRequests + 1
                    /\ UNCHANGED lmResult
    /\ UNCHANGED <<envVars, otherVars, cfgVars, chatVars>>

\* list_models that returns the error of the fetch
ListModelsFetchedPropagates ==
    /\ lmPc = "fetching"
    /\ LET fetched == fetch_anthropic_models(remote)
       IN  lmResult' = IF fetched.ok
                       THEN [ok |-> TRUE,
                             models |-> merge_models(builtin_claude_models, fetched.models)]
                       ELSE [ok |-> FALSE, models |-> <<>>]
    /\ lmPc' = "returned"
    /\ UNCHANGED <<lmArgs, lmKey, lmUrl, lmRequests>>
    /\ UNCHANGED <<envVars, otherVars, cfgVars, chatVars>>

\* list_models from the response on: a fetch that failed counts as no
\* remote models; the result is always Ok
ListModelsFetched ==
    /\ lmPc = "fetching"
    /\ LET fetched == fetch_anthropic_models(remote)
           api_models == IF fetched.ok THEN fetched.models ELSE <<>>
       IN  lmResult' = [ok |-> TRUE,
                        models |-> merge_models(builtin_claude_models, api_models)]
    /\ lmPc' = "returned"
    /\ UNCHANGED <<lmArgs, lmKey, lmUrl, lmRequests>>
    /\ UNCHANGED <<envVars, otherVars, cfgVars, chatVars>>

----
\* bookmarks.rs

\* A Bookmark: its id and the three fields add_bookmark compares
Bookmark(id, source, session_id, message_id) ==
    [id |-> id, source |-> source, session_id |-> session_id, message_id |-> message_id]

NoBookmark == Bookmark("", "", "", None)

\* (source, session_id, message_id) of a bookmark
BookmarkKey(b) == <<b.source, b.session_id, b.message_id>>

\* The bookmarks callers add: an id of their own or none
BookmarkArgs ==
    { Bookmark(id, "claude", "s1", m) : id \in {"", "i1"}, m \in {None, Some("m1")} }

\* The ids generate_id gives: the time of the call, which two calls can share
GeneratedIds == {"t1", "t2"}

\* The ids callers remove
RemoveArgs == {"i1", "t1"}

\* The text of a file is a sequence of tokens
Token(kind, b) == [kind |-> kind, bm |-> b]

\* serde_json::to_string_pretty of a BookmarksFile
to_string_pretty(bookmarks) ==
    <<Token("[", NoBookmark)>>
        \o [i \in 1..Len(bookmarks) |-> Token("bm", bookmarks[i])]
        \o <<Token("]", NoBookmark)>>

\* serde_json::from_str of a BookmarksFile: None for a text that is not one
\* complete document
bookmarks_from_str(data) ==
    IF /\ Len(data) >= 2
       /\ data[1].kind = "["
       /\ data[Len(data)].kind = "]"
       /\ \A i \in 2..(Len(data) - 1) : data[i].kind = "bm"
    THEN Some([i \in 1..(Len(data) - 2) |-> data[i + 1].bm])
    ELSE None

\* A file of the directory: whether the name exists, and the text behind it
File(exists, data) == [exists |-> exists, data |-> data]

NoFile == File(FALSE, <<>>)

\* load_bookmarks: no file, or a text that does not parse, is the empty store
load_bookmarks(fs) ==
    IF ~fs.store.exists THEN <<>>
    ELSE UnwrapOr(bookmarks_from_str(fs.store.data), <<>>)

\* A write of text at the start of a file that holds data
WriteAtStart(data, text) ==
    text \o SubSeq(data, Len(text) + 1, Len(data))

Procs == {1, 2}

MaxOps == 2

IdleProc(ops) ==
    [pc |-> "idle", op |-> "none", bookmark |-> NoBookmark, id |-> "",
     seen |-> NoFile, file |-> <<>>, fd |-> "closed", result |-> "", ops |-> ops]

BmFrame ==
    UNCHANGED <<envVars, cfgVars, lmVars, chatVars, mergeVars, maskVars, concVars, reqVars,
                mdVars>>

\* add_bookmark that does not look for the bookmark in the store
AddBookmarkWithoutDedup(p) ==
    /\ bmProc[p].pc = "idle"
    /\ bmProc[p].ops > 0
    /\ \E bookmark \in BookmarkArgs, generated \in GeneratedIds :
        LET file == load_bookmarks(bmFs)
            bm == [bookmark EXCEPT !.id = IF bookmark.id = "" THEN generated ELSE bookmark.id]
            call == [bmProc[p] EXCEPT !.op = "add", !.bookmark = bookmark, !.id = "",
                                      !.seen = bmFs.store, !.fd = "closed",
                                      !.ops = bmProc[p].ops - 1]
        IN  /\ bmProc' = [bmProc EXCEPT ![p] =
                              [call EXCEPT !.pc = "open", !.bookmark = bm,
                                           !.file = Append(file, bm), !.result = ""]]
            /\ bmSaved' = bmSaved \cup {to_string_pretty(Append(file, bm))}
    /\ UNCHANGED bmFs
    /\ BmFrame

\* add_bookmark up to the call of save_bookmarks: the store is loaded, a
\* bookmark with the same source, session and message is refused, an empty
\* id is generated, the bookmark is pushed
AddBookmark(p) ==
    /\ bmProc[p].pc = "idle"
    /\ bmProc[p].ops > 0
    /\ \E bookmark \in BookmarkArgs, generated \in GeneratedIds :
        LET file == load_bookmarks(bmFs)
            exists == \E i \in 1..Len(file) : BookmarkKey(file[i]) = BookmarkKey(bookmark)
            bm == [bookmark EXCEPT !.id = IF bookmark.id = "" THEN generated ELSE bookmark.id]
            call == [bmProc[p] EXCEPT !.op = "add", !.bookmark = bookmark, !.id = "",
                                      !.seen = bmFs.store, !.fd = "closed",
                                      !.ops = bmProc[p].ops - 1]
        IN  IF exists
            THEN /\ bmProc' = [bmProc EXCEPT ![p] =
                                   [call EXCEPT !.pc = "idle", !.file = file,
                                                !.result = "Bookmark already exists"]]
                 /\ UNCHANGED bmSaved
            ELSE /\ bmProc' = [bmProc EXCEPT ![p] =
                                   [call EXCEPT !.pc = "open", !.bookmark = bm,
                                                !.file = Append(file, bm), !.result = ""]]
                 /\ bmSaved' = bmSaved \cup {to_string_pretty(Append(file, bm))}
    /\ UNCHANGED bmFs
    /\ BmFrame

\* remove_bookmark that keeps the bookmarks after the first with the id
RemoveBookmarkFirstOnly(p) ==
    /\ bmProc[p].pc = "idle"
    /\ bmProc[p].ops > 0
    /\ \E id \in RemoveArgs :
        LET file == load_bookmarks(bmFs)
            hits == {i \in 1..Len(file) : file[i].id = id}
            first == CHOOSE i \in hits : \A j \in hits : i <= j
            retained == IF hits = {} THEN file
                        ELSE SubSeq(file, 1, first - 1) \o SubSeq(file, first + 1, Len(file))
            call == [bmProc[p] EXCEPT !.op = "remove", !.bookmark = NoBookmark, !.id = id,
                                      !.seen = bmFs.store, !.fd = "closed",
                                      !.ops = bmProc[p].ops - 1]
        IN  IF Len(retained) = Len(file)
            THEN /\ bmProc' = [bmProc EXCEPT ![p] =
                                   [call EXCEPT !.pc = "idle", !.file = retained,
                                                !.result = "Bookmark not found"]]
                 /\ UNCHANGED bmSaved
            ELSE /\ bmProc' = [bmProc EXCEPT ![p] =
                                   [call EXCEPT !.pc = "open", !.file = retained, !.result = ""]]
                 /\ bmSaved' = bmSaved \cup {to_string_pretty(retained)}
    /\ UNCHANGED bmFs
    /\ BmFrame

\* remove_bookmark up to the call of save_bookmarks: the store is loaded and
\* the bookmarks with the id are dropped; none dropped is an error
RemoveBookmark(p) ==
    /\ bmProc[p].pc = "idle"
    /\ bmProc[p].ops > 0
    /\ \E id \in RemoveArgs :
        LET file == load_bookmarks(bmFs)
            retained == SelectSeq(file, LAMBDA b : b.id /= id)
            call == [bmProc[p] EXCEPT !.op = "remove", !.bookmark = NoBookmark, !.id = id,
                                      !.seen = bmFs.store, !.fd = "closed",
                                      !.ops = bmProc[p].ops - 1]
        IN  IF Len(retained) = Len(file)
            THEN /\ bmProc' = [bmProc EXCEPT ![p] =
                                   [call EXCEPT !.pc = "idle", !.file = retained,
                                                !.result = "Bookmark not found"]]
                 /\ UNCHANGED bmSaved
            ELSE /\ bmProc' = [bmProc EXCEPT ![p] =
                                   [call EXCEPT !.pc = "open", !.file = retained, !.result = ""]]
                 /\ bmSaved' = bmSaved \cup {to_string_pretty(retained)}
    /\ UNCHANGED bmFs
    /\ BmFrame

\* save_bookmarks, fs::write, first half: the .tmp file is created, or cut
\* to nothing when it is there, and opened
SaveOpenTmp(p) ==
    /\ bmProc[p].pc = "open"
    /\ bmFs' = [bmFs EXCEPT !.tmp = File(TRUE, <<>>)]
    /\ bmProc' = [bmProc EXCEPT ![p].pc = "write", ![p].fd = "tmp"]
    /\ UNCHANGED bmSaved
    /\ BmFrame

\* save_bookmarks, fs::write, second half: the text is written from the start
\* of the file that was opened, whatever name that file has by now
SaveWriteTmp(p) ==
    /\ bmProc[p].pc = "write"
    /\ LET text == to_string_pretty(bmProc[p].file)
       IN  bmFs' = IF bmProc[p].fd = "tmp"
                   THEN [bmFs EXCEPT !.tmp.data = WriteAtStart(bmFs.tmp.data, text)]
                   ELSE IF bmProc[p].fd = "store"
                   THEN [bmFs EXCEPT !.store.data = WriteAtStart(bmFs.store.data, text)]
                   ELSE bmFs
    /\ bmProc' = [bmProc EXCEPT ![p].pc = "rename", ![p].fd = "closed"]
    /\ UNCHANGED bmSaved
    /\ BmFrame

\* save_bookmarks, fs::rename: the .tmp file takes the name of the store; a
\* file still open under the name .tmp is the store from now on, and the old
\* store has no name any more. Without a .tmp file the rename fails.
SaveRename(p) ==
    /\ bmProc[p].pc = "rename"
    /\ IF bmFs.tmp.exists
       THEN /\ bmFs' = [store |-> bmFs.tmp, tmp |-> NoFile]
            /\ bmProc' = [q \in Procs |->
                             IF q = p
                             THEN [bmProc[q] EXCEPT !.pc = "idle", !.result = "Ok"]
                             ELSE [bmProc[q] EXCEPT !.fd =
                                       IF bmProc[q].fd = "tmp" THEN "store"
                                       ELSE IF bmProc[q].fd = "store" THEN "unlinked"
                                       ELSE bmProc[q].fd]]
       ELSE /\ bmProc' = [bmProc EXCEPT ![p].pc = "idle",
                              ![p].result = "Failed to rename bookmarks file"]
            /\ UNCHANGED bmFs
    /\ UNCHANGED bmSaved
    /\ BmFrame

----
\* metadata.rs

\* SessionMeta
SessionMeta(alias, tags) == [alias |-> alias, tags |-> tags]

\* The session ids, aliases and tag lists of the calls
SessionIds == {"s1", "s2"}

Aliases == {None, Some(""), Some("a")}

TagLists == {<<>>, <<"t">>}

\* The sources of the calls: one that has a metadata path and one that has none
MetaSources == {"claude", "other"}

\* metadata_path: Some for a known source
metadata_path_is_some(source) == source \in {"claude", "codex"}

\* A SessionMeta as JSON: alias is left out when None and tags when empty
SessionMetaToJson(m) ==
    [alias |-> m.alias, tags |-> IF m.tags = <<>> THEN None ELSE Some(m.tags)]

\* A SessionMeta from JSON: a missing alias is None, missing tags are empty
SessionMetaFromJson(j) ==
    [alias |-> j.alias, tags |-> UnwrapOr(j.tags, <<>>)]

\* The text of a MetadataFile, and the MetadataFile of a text
MetadataToJson(sessions) == [k \in DOMAIN sessions |-> SessionMetaToJson(sessions[k])]

MetadataFromJson(text) == [k \in DOMAIN text |-> SessionMetaFromJson(text[k])]

\* load_metadata: the sessions of the file, none without a path or a file
load_metadata(source, fs) ==
    IF ~metadata_path_is_some(source) THEN <<>>
    ELSE IF ~fs.exists THEN <<>>
    ELSE MetadataFromJson(fs.data)

\* HashMap::remove and HashMap::insert
MapRemove(map, k) == [x \in DOMAIN map \ {k} |-> map[x]]

MapInsert(map, k, v) == [x \in DOMAIN map \cup {k} |-> IF x = k THEN v ELSE map[x]]

NoMetaCall ==
    [op |-> "none", source |-> "", session_id |-> "", alias |-> None, tags |-> <<>>,
     before |-> NoFile, result |-> ""]

MdFrame ==
    UNCHANGED <<envVars, cfgVars, lmVars, chatVars, mergeVars, maskVars, concVars, reqVars,
                bmVars>>

\* update_session_meta that stores the entry whatever the alias and tags
UpdateSessionMetaKeepsEmpty ==
    /\ \E source \in MetaSources, session_id \in SessionIds,
          alias \in Aliases, tags \in TagLists :
        LET meta == load_metadata(source, mdFs)
            sessions == MapInsert(meta, session_id, SessionMeta(alias, tags))
            saved == metadata_path_is_some(source)
        IN  /\ mdFs' = IF saved THEN File(TRUE, MetadataToJson(sessions)) ELSE mdFs
            /\ mdLast' = [op |-> "update", source |-> source, session_id |-> session_id,
                          alias |-> alias, tags |-> tags, before |-> mdFs,
                          result |-> IF saved THEN "Ok"
                                     ELSE "Cannot resolve metadata path"]
    /\ MdFrame

\* update_session_meta: the file is loaded, the entry of the session is
\* removed when there is no alias and no tag and set otherwise, and the file
\* is saved
UpdateSessionMeta ==
    /\ \E source \in MetaSources, session_id \in SessionIds,
          alias \in Aliases, tags \in TagLists :
        LET meta == load_metadata(source, mdFs)
            sessions == IF alias = None /\ tags = <<>>
                        THEN MapRemove(meta, session_id)
                        ELSE MapInsert(meta, session_id, SessionMeta(alias, tags))
            saved == metadata_path_is_some(source)
        IN  /\ mdFs' = IF saved THEN File(TRUE, MetadataToJson(sessions)) ELSE mdFs
            /\ mdLast' = [op |-> "update", source |-> source, session_id |-> session_id,
                          alias |-> alias, tags |-> tags, before |-> mdFs,
                          result |-> IF saved THEN "Ok"
                                     ELSE "Cannot resolve metadata path"]
    /\ MdFrame

\* remove_session_meta: the file is saved only when the session had an entry
RemoveSessionMeta ==
    /\ \E source \in MetaSources, session_id \in SessionIds :
        LET meta == load_metadata(source, mdFs)
        IN  /\ mdFs' = IF session_id \in DOMAIN meta
                       THEN File(TRUE, MetadataToJson(MapRemove(meta, session_id)))
                       ELSE mdFs
            /\ mdLast' = [op |-> "remove", source |-> source, session_id |-> session_id,
                          alias |-> None, tags |-> <<>>, before |-> mdFs, result |-> "Ok"]
    /\ MdFrame

----
\* quick_chat.rs

\* str::trim: the whitespace fragments at both ends are dropped
RECURSIVE trim_start(_)
trim_start(line) ==
    IF line /= <<>> /\ Head(line) = " " THEN trim_start(Tail(line)) ELSE line

RECURSIVE trim_end(_)
trim_end(line) ==
    IF line /= <<>> /\ line[Len(line)] = " "
    THEN trim_end(SubSeq(line, 1, Len(line) - 1))
    ELSE line

trim(line) == trim_end(trim_start(line))

\* line.starts_with("data: ")
starts_with_data(line) == Len(line) >= 2 /\ line[1] = "data:" /\ line[2] = " "

\* &line[6..]: what follows the prefix "data: "
payload(line) == SubSeq(line, 3, Len(line))

\* The JSON documents of the model, by their text. type is
\* json.get("type").as_str() and text is json.get("delta").get("text").as_str()
JsonDocument(text) ==
    CASE text = "{delta Hi}" ->
            Some([type |-> Some("content_block_delta"), text |-> Some("Hi")])
      [] text = "{delta there}" ->
            Some([type |-> Some("content_block_delta"), text |-> Some("there")])
      [] text = "{delta ''}" ->
            Some([type |-> Some("content_block_delta"), text |-> Some("")])
      [] text = "{delta 7}" ->
            Some([type |-> Some("content_block_delta"), text |-> None])
      [] text = "{start Hi}" ->
            Some([type |-> Some("message_start"), text |-> Some("Hi")])
      [] text = "{ping}" ->
            Some([type |-> Some("ping"), text |-> None])
      [] OTHER -> None

\* serde_json::from_str(data).ok(): one JSON value, whitespace around it allowed
from_str(data) ==
    LET t == trim(data)
    IN  IF Len(t) = 1 THEN JsonDocument(t[1]) ELSE None

\* The loop body without the test of the event type
LoopBodyAnyEvent(raw) ==
    LET line == trim(raw)
        data == payload(line)
        json == from_str(data)
    IN  IF ~starts_with_data(line) THEN [step |-> "continue", text |-> ""]
        ELSE IF data = <<"[DONE]">> THEN [step |-> "break", text |-> ""]
        ELSE IF json = None THEN [step |-> "continue", text |-> ""]
        ELSE IF json[1].text /= None /\ json[1].text[1] /= ""
             THEN [step |-> "chunk", text |-> json[1].text[1]]
             ELSE [step |-> "continue", text |-> ""]

\* The loop body without the test for [DONE], which then fails to parse
LoopBodyIgnoresDone(raw) ==
    LET line == trim(raw)
        data == payload(line)
        json == from_str(data)
    IN  IF ~starts_with_data(line) THEN [step |-> "continue", text |-> ""]
        ELSE IF json = None THEN [step |-> "continue", text |-> ""]
        ELSE IF /\ json[1].type = Some("content_block_delta")
                /\ json[1].text /= None
                /\ json[1].text[1] /= ""
             THEN [step |-> "chunk", text |-> json[1].text[1]]
             ELSE [step |-> "continue", text |-> ""]

\* The loop body that leaves the loop at a payload that is not JSON
LoopBodyAbortsOnBadJson(raw) ==
    LET line == trim(raw)
        data == payload(line)
        json == from_str(data)
    IN  IF ~starts_with_data(line) THEN [step |-> "continue", text |-> ""]
        ELSE IF data = <<"[DONE]">> THEN [step |-> "break", text |-> ""]
        ELSE IF json = None THEN [step |-> "break", text |-> ""]
        ELSE IF /\ json[1].type = Some("content_block_delta")
                /\ json[1].text /= None
                /\ json[1].text[1] /= ""
             THEN [step |-> "chunk", text |-> json[1].text[1]]
             ELSE [step |-> "continue", text |-> ""]

\* One turn of the while loop on a line that was read: "break" at [DONE],
\* "chunk" when on_chunk is called with text, else "continue"
LoopBody(raw) ==
    LET line == trim(raw)
        data == payload(line)
        json == from_str(data)
    IN  IF ~starts_with_data(line) THEN [step |-> "continue", text |-> ""]
        ELSE IF data = <<"[DONE]">> THEN [step |-> "break", text |-> ""]
        ELSE IF json = None THEN [step |-> "continue", text |-> ""]
        ELSE IF /\ json[1].type = Some("content_block_delta")
                /\ json[1].text /= None
                /\ json[1].text[1] /= ""
             THEN [step |-> "chunk", text |-> json[1].text[1]]
             ELSE [step |-> "continue", text |-> ""]

\* The lines a response body is made of, and the bodies
MaxLines == 3

Lines ==
    { <<"data:", " ", "{delta Hi}">>,
      <<" ", "data:", " ", "{delta there}", " ">>,
      <<"data:", " ", "[DONE]">>,
      <<"data:", " ", "{not valid json">>,
      <<"data:", " ", "{delta ''}">>,
      <<"data:", " ", "{start Hi}">>,
      <<"data:", "{delta Hi}">>,
      <<"data:", " ", " ", "[DONE]">>,
      <<>> }

Bodies == UNION { [1..n -> Lines] : n \in 0..MaxLines }

ChatResult(ok, err, status, text) ==
    [returned |-> TRUE, ok |-> ok, err |-> err, status |-> status, text |-> text]

NoChatResult == [returned |-> FALSE, ok |-> FALSE, err |-> "", status |-> 0, text |-> ""]

\* stream_chat without the test of the key: the POST is sent in any case
ChatCallWithoutKeyCheck ==
    /\ chatPc = "Idle"
    /\ chatCred' = get_credentials(homeDir, settingsFile, processEnv)
    /\ chatPc' = "Connecting"
    /\ chatRequests' = chatRequests + 1
    /\ UNCHANGED <<chatStatus, chatBody, chatPos, chunks, chatIoError, chatDone, chatResult>>
    /\ UNCHANGED <<envVars, otherVars, cfgVars, lmVars, chatErrorBody, chatCancelled>>

\* stream_chat up to the send: without a key it returns the credential error;
\* a client that cannot be built is an error too; else the POST is sent
ChatCall ==
    /\ chatPc = "Idle"
    /\ LET cred == get_credentials(homeDir, settingsFile, processEnv)
       IN  /\ chatCred' = cred
           /\ IF cred[1] = ""
              THEN /\ chatPc' = "Returned"
                   /\ chatResult' = ChatResult(FALSE, "No API key found for Claude", 0, "")
                   /\ UNCHANGED chatRequests
              ELSE \/ /\ chatPc' = "Returned"
                      /\ chatResult' = ChatResult(FALSE, "Failed to create HTTP client", 0, "")
                      /\ UNCHANGED chatRequests
                   \/ /\ chatPc' = "Connecting"
                      /\ chatRequests' = chatRequests + 1
                      /\ UNCHANGED chatResult
    /\ UNCHANGED <<chatStatus, chatBody, chatPos, chunks, chatIoError, chatDone>>
    /\ UNCHANGED <<envVars, otherVars, cfgVars, lmVars, chatErrorBody, chatCancelled>>

\* send().await fails: the transport error is returned
ChatSendFails ==
    /\ chatPc = "Connecting"
    /\ chatPc' = "Returned"
    /\ chatResult' = ChatResult(FALSE, "Anthropic API request failed", 0, "")
    /\ UNCHANGED <<chatCred, chatRequests, chatStatus, chatBody, chatPos, chunks, chatIoError, chatDone>>
    /\ UNCHANGED <<envVars, otherVars, cfgVars, lmVars, chatErrorBody, chatCancelled>>

\* The error of a response that is not a success, without the body
ChatErrorStatusDropsBody ==
    /\ chatPc = "Connecting"
    /\ \E status \in {401, 500}, body \in {"", "overloaded"}, readable \in BOOLEAN :
        /\ chatStatus' = status
        /\ chatErrorBody' = [body |-> body, readable |-> readable]
        /\ chatResult' = ChatResult(FALSE, "API Error", status, "")
    /\ chatPc' = "Returned"
    /\ UNCHANGED <<chatCred, chatRequests, chatBody, chatPos, chunks, chatIoError, chatDone>>
    /\ UNCHANGED <<envVars, otherVars, cfgVars, lmVars, chatCancelled>>

\* A response whose status is not a success: the error carries the status and
\* resp.text().await.unwrap_or_default(), the body or "" when it does not read
ChatErrorStatus ==
    /\ chatPc = "Connecting"
    /\ \E status \in {401, 500}, body \in {"", "overloaded"}, readable \in BOOLEAN :
        /\ chatStatus' = status
        /\ chatErrorBody' = [body |-> body, readable |-> readable]
        /\ chatResult' = ChatResult(FALSE, "API Error", status, IF readable THEN body ELSE "")
    /\ chatPc' = "Returned"
    /\ UNCHANGED <<chatCred, chatRequests, chatBody, chatPos, chunks, chatIoError, chatDone>>
    /\ UNCHANGED <<envVars, otherVars, cfgVars, lmVars, chatCancelled>>

\* A success status: the body is read line by line
ChatSuccessStatus ==
    /\ chatPc = "Connecting"
    /\ \E body \in Bodies : chatBody' = body
    /\ chatStatus' = 200
    /\ chatPc' = "Streaming"
    /\ UNCHANGED <<chatCred, chatRequests, chatPos, chunks, chatIoError, chatDone, chatResult>>
    /\ UNCHANGED <<envVars, otherVars, cfgVars, lmVars, chatErrorBody, chatCancelled>>

\* lines.next_line().await is Ok(Some(line)): one turn of the loop
ChatNextLine ==
    /\ chatPc = "Streaming"
    /\ chatPos < Len(chatBody)
    /\ chatPos' = chatPos + 1
    /\ LET r == LoopBody(chatBody[chatPos + 1])
       IN  /\ chunks' = IF r.step = "chunk" THEN Append(chunks, r.text) ELSE chunks
           /\ IF r.step = "break"
              THEN /\ chatPc' = "Returned"
                   /\ chatDone' = TRUE
                   /\ chatResult' = ChatResult(TRUE, "", 0, "")
              ELSE UNCHANGED <<chatPc, chatDone, chatResult>>
    /\ UNCHANGED <<chatCred, chatRequests, chatStatus, chatBody, chatIoError>>
    /\ UNCHANGED <<envVars, otherVars, cfgVars, lmVars, chatErrorBody, chatCancelled>>

\* The end of the body that is not taken as the end of the loop
ChatEndOfStreamKeepsWaiting ==
    /\ chatPc = "Streaming"
    /\ chatPos = Len(chatBody)
    /\ UNCHANGED <<chatPc, chatResult, chatCred, chatRequests, chatStatus, chatBody, chatPos,
                   chunks, chatIoError, chatDone>>
    /\ UNCHANGED <<envVars, otherVars, cfgVars, lmVars, chatErrorBody, chatCancelled>>

\* lines.next_line().await is Ok(None): the loop ends and Ok(()) is returned
ChatEndOfStream ==
    /\ chatPc = "Streaming"
    /\ chatPos = Len(chatBody)
    /\ chatPc' = "Returned"
    /\ chatResult' = ChatResult(TRUE, "", 0, "")
    /\ UNCHANGED <<chatCred, chatRequests, chatStatus, chatBody, chatPos, chunks,
                   chatIoError, chatDone>>
    /\ UNCHANGED <<envVars, otherVars, cfgVars, lmVars, chatErrorBody, chatCancelled>>

\* lines.next_line().await is Err(_): `while let Ok(Some(line))` does not
\* match, the loop ends and Ok(()) is returned
ChatReadError ==
    /\ chatPc = "Streaming"
    /\ chatIoError' = TRUE
    /\ chatPc' = "Returned"
    /\ chatResult' = ChatResult(TRUE, "", 0, "")
    /\ UNCHANGED <<chatCred, chatRequests, chatStatus, chatBody, chatPos, chunks, chatDone>>
    /\ UNCHANGED <<envVars, otherVars, cfgVars, lmVars, chatErrorBody, chatCancelled>>

\* A cancellation that does not stop the task
ChatCancelKeepsRunning ==
    /\ chatPc \in {"Connecting", "Streaming"}
    /\ ~chatCancelled
    /\ chatCancelled' = TRUE
    /\ UNCHANGED <<chatPc, chatCred, chatRequests, chatStatus, chatBody, chatPos, chunks,
                   chatIoError, chatDone, chatResult, chatErrorBody>>
    /\ UNCHANGED <<envVars, otherVars, cfgVars, lmVars>>

\* The caller drops the future while it is suspended at send().await or at
\* lines.next_line().await: nothing of stream_chat runs after that
ChatCancel ==
    /\ chatPc \in {"Connecting", "Streaming"}
    /\ ~chatCancelled
    /\ chatCancelled' = TRUE
    /\ chatPc' = "Cancelled"
    /\ UNCHANGED <<chatCred, chatRequests, chatStatus, chatBody, chatPos, chunks,
                   chatIoError, chatDone, chatResult, chatErrorBody>>
    /\ UNCHANGED <<envVars, otherVars, cfgVars, lmVars>>

\* ChatMsg, and the messages a caller passes
ChatMsg(role, content) == [role |-> role, content |-> content]

MaxMsgs == 3

ChatMsgs == { ChatMsg(r, c) : r \in {"user", "assistant"}, c \in {"", "hi", "say \"hi\""} }

MessageSeqs == UNION { [1..n -> ChatMsgs] : n \in 0..MaxMsgs }

\* A JSON string value
JsonString(str) == [json |-> "string", value |-> str]

\* The map of the messages that keeps the messages of the user only
RECURSIVE api_messages_of_user(_)
api_messages_of_user(messages) ==
    IF messages = <<>> THEN <<>>
    ELSE (IF Head(messages).role = "user"
          THEN << [role |-> JsonString(Head(messages).role),
                   content |-> JsonString(Head(messages).content)] >>
          ELSE <<>>) \o api_messages_of_user(Tail(messages))

\* messages.into_iter().map(|m| json!({"role": m.role, "content": m.content})).collect()
RECURSIVE api_messages(_)
api_messages(messages) ==
    IF messages = <<>> THEN <<>>
    ELSE << [role |-> JsonString(Head(messages).role),
             content |-> JsonString(Head(messages).content)] >>
             \o api_messages(Tail(messages))

\* The body of the POST
RequestBody(model, messages) ==
    [model |-> JsonString(model), max_tokens |-> 16384, stream |-> TRUE,
     messages |-> api_messages(messages)]

NoRequestBody == RequestBody("", <<>>)

\* stream_chat builds the body of its request
BuildRequest ==
    /\ reqPc = "idle"
    /\ \E model \in {"claude-sonnet-4-6", "sonnet"} :
        reqBody' = RequestBody(model, reqMessages)
    /\ reqPc' = "built"
    /\ UNCHANGED <<reqMessages, mergeVars, maskVars, concVars, bmVars, mdVars, envVars, cfgVars, lmVars, chatVars>>

\* Several stream_chat calls in flight together. Every local of stream_chat
\* (its credentials, its client, its response, its line reader) and its
\* on_chunk consumer belong to one call; the calls read the same home
\* directory, settings file and environment.
CallIds == {1, 2}

\* The response bodies of the calls in flight together
ConcBodies ==
    { <<>>,
      << <<"data:", " ", "{delta Hi}">>, <<"data:", " ", "[DONE]">> >>,
      << <<" ", "data:", " ", "{delta there}", " ">>,
         <<"data:", " ", "{not valid json">>,
         <<"data:", " ", "{delta Hi}">> >> }

IdleCall ==
    [pc |-> "Idle", cred |-> <<"", "">>, requests |-> 0, status |-> 0,
     errorBody |-> [body |-> "", readable |-> TRUE], body |-> <<>>, pos |-> 0,
     chunks |-> <<>>, ioError |-> FALSE, done |-> FALSE, result |-> NoChatResult]

ConcFrame == UNCHANGED <<bmVars, mdVars, envVars, cfgVars, lmVars, chatVars, mergeVars, maskVars, reqVars>>

\* Call p starts: credentials, key test, client, POST
ConcCall(p) ==
    /\ calls[p].pc = "Idle"
    /\ LET cred == get_credentials(homeDir, settingsFile, processEnv)
       IN  IF cred[1] = ""
           THEN calls' = [calls EXCEPT ![p].cred = cred, ![p].pc = "Returned",
                              ![p].result = ChatResult(FALSE, "No API key found for Claude", 0, "")]
           ELSE \/ calls' = [calls EXCEPT ![p].cred = cred, ![p].pc = "Returned",
                                 ![p].result = ChatResult(FALSE, "Failed to create HTTP client", 0, "")]
                \/ calls' = [calls EXCEPT ![p].cred = cred, ![p].pc = "Connecting",
                                 ![p].requests = 1]
    /\ ConcFrame

\* send().await of call p fails
ConcSendFails(p) ==
    /\ calls[p].pc = "Connecting"
    /\ calls' = [calls EXCEPT ![p].pc = "Returned",
                     ![p].result = ChatResult(FALSE, "Anthropic API request failed", 0, "")]
    /\ ConcFrame

\* The response of call p has a status that is not a success
ConcErrorStatus(p) ==
    /\ calls[p].pc = "Connecting"
    /\ \E status \in {401, 500}, body \in {"", "overloaded"}, readable \in BOOLEAN :
        calls' = [calls EXCEPT ![p].pc = "Returned", ![p].status = status,
                      ![p].errorBody = [body |-> body, readable |-> readable],
                      ![p].result = ChatResult(FALSE, "API Error", status,
                                               IF readable THEN body ELSE "")]
    /\ ConcFrame

\* The response of call p has a success status
ConcSuccessStatus(p) ==
    /\ calls[p].pc = "Connecting"
    /\ \E body \in ConcBodies :
        calls' = [calls EXCEPT ![p].pc = "Streaming", ![p].status = 200, ![p].body = body]
    /\ ConcFrame

\* One turn of the loop of a call that hands its chunk to the consumer of
\* call 1
ConcNextLineOneConsumer(p) ==
    /\ calls[p].pc = "Streaming"
    /\ calls[p].pos < Len(calls[p].body)
    /\ LET c == calls[p]
           r == LoopBody(c.body[c.pos + 1])
           read == [calls EXCEPT ![p].pos = c.pos + 1]
           given == IF r.step = "chunk"
                    THEN [read EXCEPT ![1].chunks = Append(read[1].chunks, r.text)]
                    ELSE read
       IN  calls' = IF r.step = "break"
                    THEN [given EXCEPT ![p].pc = "Returned", ![p].done = TRUE,
                              ![p].result = ChatResult(TRUE, "", 0, "")]
                    ELSE given
    /\ ConcFrame

\* One turn of the loop of call p: its next line, its on_chunk
ConcNextLine(p) ==
    /\ calls[p].pc = "Streaming"
    /\ calls[p].pos < Len(calls[p].body)
    /\ LET c == calls[p]
           r == LoopBody(c.body[c.pos + 1])
           read == [calls EXCEPT ![p].pos = c.pos + 1]
           given == IF r.step = "chunk"
                    THEN [read EXCEPT ![p].chunks = Append(c.chunks, r.text)]
                    ELSE read
       IN  calls' = IF r.step = "break"
                    THEN [given EXCEPT ![p].pc = "Returned", ![p].done = TRUE,
                              ![p].result = ChatResult(TRUE, "", 0, "")]
                    ELSE given
    /\ ConcFrame

\* The body of call p ends
ConcEndOfStream(p) ==
    /\ calls[p].pc = "Streaming"
    /\ calls[p].pos = Len(calls[p].body)
    /\ calls' = [calls EXCEPT ![p].pc = "Returned",
                     ![p].result = ChatResult(TRUE, "", 0, "")]
    /\ ConcFrame

\* The read of a line of call p fails
ConcReadError(p) ==
    /\ calls[p].pc = "Streaming"
    /\ calls' = [calls EXCEPT ![p].pc = "Returned", ![p].ioError = TRUE,
                     ![p].result = ChatResult(TRUE, "", 0, "")]
    /\ ConcFrame

----
\* Specifications

InitCalls ==
    /\ cfgResult = NoConfig
    /\ lmPc = "idle"
    /\ lmArgs = [api_key |-> "", base_url |-> ""]
    /\ lmKey = ""
    /\ lmUrl = ""
    /\ lmRequests = 0
    /\ lmResult = NoResult
    /\ chatPc = "Idle"
    /\ chatCred = <<"", "">>
    /\ chatRequests = 0
    /\ chatStatus = 0
    /\ chatBody = <<>>
    /\ chatPos = 0
    /\ chunks = <<>>
    /\ chatIoError = FALSE
    /\ chatDone = FALSE
    /\ chatResult = NoChatResult
    /\ chatErrorBody = [body |-> "", readable |-> TRUE]
    /\ chatCancelled = FALSE

IdleMask ==
    /\ maskPc = "idle"
    /\ maskKey = <<>>
    /\ maskResult = MaskResult(FALSE, <<>>)

IdleConc == calls = [p \in CallIds |-> IdleCall]

IdleReq ==
    /\ reqPc = "idle"
    /\ reqMessages = <<>>
    /\ reqBody = NoRequestBody

IdleBookmarks ==
    /\ bmFs = [store |-> NoFile, tmp |-> NoFile]
    /\ bmProc = [p \in Procs |-> IdleProc(0)]
    /\ bmSaved = {}

IdleMetadata ==
    /\ mdFs = NoFile
    /\ mdLast = NoMetaCall

IdleMerge ==
    /\ mergePc = "idle"
    /\ mergeArgs = [builtin |-> <<>>, api_models |-> <<>>]
    /\ mergeResult = <<>>

\* Credential resolution in every world of settings and environment; the
\* server fails or lists the entries once
CredResponses ==
    FailedResponses
    \cup { [kind |-> "ok", data |-> <<>>] }
    \cup { [kind |-> "ok", data |-> <<e>>] : e \in RemoteEntries }

InitCred ==
    /\ homeDir \in BOOLEAN
    /\ settingsFile \in SettingsFiles
    /\ processEnv \in ProcessEnvs
    /\ remote \in CredResponses
    /\ InitCalls
    /\ IdleMerge
    /\ IdleMask
    /\ IdleConc
    /\ IdleReq
    /\ IdleBookmarks
    /\ IdleMetadata

NextCred == ReadCliConfig \/ ListModelsCall \/ ListModelsFetched

SpecCred == InitCred /\ [][NextCred]_vars

\* The model catalog: the worlds with and without a key in the settings file
\* and in the environment, and every response of up to MaxRemote entries
CatalogSettingsFiles ==
    { [status |-> "missing", content |-> DefaultSettings],
      [status |-> "ok",
       content |-> [env |-> [ANTHROPIC_AUTH_TOKEN |-> Some("A"),
                             ANTHROPIC_API_KEY |-> None,
                             ANTHROPIC_BASE_URL |-> Some("http://settings")],
                    model |-> None]] }

CatalogProcessEnvs ==
    { [ANTHROPIC_API_KEY |-> None, ANTHROPIC_BASE_URL |-> None],
      [ANTHROPIC_API_KEY |-> Some("C"), ANTHROPIC_BASE_URL |-> Some("http://env")] }

InitCatalog ==
    /\ homeDir = TRUE
    /\ settingsFile \in CatalogSettingsFiles
    /\ processEnv \in CatalogProcessEnvs
    /\ remote \in Responses
    /\ InitCalls
    /\ IdleMerge
    /\ IdleMask
    /\ IdleConc
    /\ IdleReq
    /\ IdleBookmarks
    /\ IdleMetadata

SpecCatalog == InitCatalog /\ [][NextCred]_vars

\* merge_models on every pair of lists of up to MaxMerge entries
IdleWorld ==
    /\ homeDir = TRUE
    /\ settingsFile = [status |-> "missing", content |-> DefaultSettings]
    /\ processEnv = [ANTHROPIC_API_KEY |-> None, ANTHROPIC_BASE_URL |-> None]
    /\ remote = [kind |-> "ok", data |-> <<>>]

InitMerge ==
    /\ IdleWorld
    /\ InitCalls
    /\ mergePc = "idle"
    /\ mergeArgs \in [builtin : MergeLists("builtin"), api_models : MergeLists("remote")]
    /\ mergeResult = <<>>
    /\ IdleMask
    /\ IdleConc
    /\ IdleReq
    /\ IdleBookmarks
    /\ IdleMetadata

NextMerge == MergeModels

SpecMerge == InitMerge /\ [][NextMerge]_vars

\* mask_key on every key of up to MaxKeyLen characters
InitMask ==
    /\ IdleWorld
    /\ InitCalls
    /\ IdleMerge
    /\ maskPc = "idle"
    /\ maskKey \in Keys
    /\ maskResult = MaskResult(FALSE, <<>>)
    /\ IdleConc
    /\ IdleReq
    /\ IdleBookmarks
    /\ IdleMetadata

NextMask == MaskKey

SpecMask == InitMask /\ [][NextMask]_vars

\* The worlds of the streaming chat: with and without a home directory, a
\* settings file that is missing, empty, or holds a token and a URL, and an
\* environment that is unset, set to empty strings or set
ChatSettingsFiles ==
    { [status |-> "missing", content |-> DefaultSettings],
      [status |-> "ok", content |-> DefaultSettings],
      [status |-> "ok",
       content |-> [env |-> [ANTHROPIC_AUTH_TOKEN |-> Some("A"),
                             ANTHROPIC_API_KEY |-> Some(""),
                             ANTHROPIC_BASE_URL |-> Some("http://settings")],
                    model |-> None]] }

ChatProcessEnvs ==
    { [ANTHROPIC_API_KEY |-> None, ANTHROPIC_BASE_URL |-> None],
      [ANTHROPIC_API_KEY |-> Some(""), ANTHROPIC_BASE_URL |-> Some("")],
      [ANTHROPIC_API_KEY |-> Some("C"), ANTHROPIC_BASE_URL |-> Some("http://env")] }

InitChat ==
    /\ homeDir \in BOOLEAN
    /\ settingsFile \in ChatSettingsFiles
    /\ processEnv \in ChatProcessEnvs
    /\ remote = [kind |-> "ok", data |-> <<>>]
    /\ InitCalls
    /\ IdleMerge
    /\ IdleMask
    /\ IdleConc
    /\ IdleReq
    /\ IdleBookmarks
    /\ IdleMetadata

NextChat ==
    \/ ChatCall
    \/ ChatSendFails
    \/ ChatErrorStatus
    \/ ChatSuccessStatus
    \/ ChatNextLine
    \/ ChatEndOfStream
    \/ ChatReadError
    \/ ChatCancel

SpecChat == InitChat /\ [][NextChat]_vars

\* The request body of stream_chat on every message sequence of up to
\* MaxMsgs messages
InitRequest ==
    /\ IdleWorld
    /\ InitCalls
    /\ IdleMerge
    /\ IdleMask
    /\ IdleConc
    /\ reqPc = "idle"
    /\ reqMessages \in MessageSeqs
    /\ reqBody = NoRequestBody
    /\ IdleBookmarks
    /\ IdleMetadata

NextRequest == BuildRequest

SpecRequest == InitRequest /\ [][NextRequest]_vars

\* The stores the bookmark calls start from: none, and stores without two
\* bookmarks of the same source, session and message
InitialStores ==
    { NoFile,
      File(TRUE, to_string_pretty(<<Bookmark("i1", "claude", "s1", None)>>)),
      File(TRUE, to_string_pretty(<<Bookmark("i1", "claude", "s1", None),
                                    Bookmark("i1", "claude", "s1", Some("m1"))>>)) }

InitBookmarksWorld ==
    /\ IdleWorld
    /\ InitCalls
    /\ IdleMerge
    /\ IdleMask
    /\ IdleConc
    /\ IdleReq
    /\ bmFs \in { [store |-> f, tmp |-> NoFile] : f \in InitialStores }
    /\ bmSaved = IF bmFs.store.exists THEN {bmFs.store.data} ELSE {}
    /\ IdleMetadata

NextBookmarks ==
    \/ \E p \in Procs : AddBookmark(p)
    \/ \E p \in Procs : RemoveBookmark(p)
    \/ \E p \in Procs : SaveOpenTmp(p)
    \/ \E p \in Procs : SaveWriteTmp(p)
    \/ \E p \in Procs : SaveRename(p)

\* One caller: the calls follow one another
InitBookmarksSeq ==
    /\ InitBookmarksWorld
    /\ bmProc = [p \in Procs |-> IdleProc(IF p = 1 THEN MaxOps + 1 ELSE 0)]

SpecBookmarksSeq == InitBookmarksSeq /\ [][NextBookmarks]_vars

\* Two callers at once, as the handlers of the web server and the commands
\* of the desktop application are: one makes several calls, the other one
ConcOps(p) == IF p = 1 THEN MaxOps + 1 ELSE 1

InitBookmarksConc ==
    /\ InitBookmarksWorld
    /\ bmProc = [p \in Procs |-> IdleProc(ConcOps(p))]

SpecBookmarksConc == InitBookmarksConc /\ [][NextBookmarks]_vars

\* The metadata calls, one after the other, from an empty store: no file,
\* or a file without sessions
InitMetadata ==
    /\ IdleWorld
    /\ InitCalls
    /\ IdleMerge
    /\ IdleMask
    /\ IdleConc
    /\ IdleReq
    /\ IdleBookmarks
    /\ mdFs \in {NoFile, File(TRUE, <<>>)}
    /\ mdLast = NoMetaCall

NextMetadata ==
    \/ UpdateSessionMeta
    \/ RemoveSessionMeta

SpecMetadata == InitMetadata /\ [][NextMetadata]_vars

\* A stream_chat call that its caller awaits to the end. The client is built
\* with a connect timeout and a total timeout: a send().await that gets no
\* response ends with an error, so the call does not wait for the response
\* for ever; a body of finitely many lines gives each next_line().await a
\* line or its end.
InitChatLive ==
    /\ homeDir = TRUE
    /\ settingsFile = [status |-> "ok", content |-> DefaultSettings]
    /\ processEnv = [ANTHROPIC_API_KEY |-> Some("C"), ANTHROPIC_BASE_URL |-> Some("http://env")]
    /\ remote = [kind |-> "ok", data |-> <<>>]
    /\ InitCalls
    /\ IdleMerge
    /\ IdleMask
    /\ IdleConc
    /\ IdleReq
    /\ IdleBookmarks
    /\ IdleMetadata

NextChatLive ==
    \/ ChatCall
    \/ ChatSendFails
    \/ ChatErrorStatus
    \/ ChatSuccessStatus
    \/ ChatNextLine
    \/ ChatEndOfStream
    \/ ChatReadError

SpecChatLive ==
    /\ InitChatLive
    /\ [][NextChatLive]_vars
    /\ WF_vars(ChatSendFails)
    /\ WF_vars(ChatNextLine \/ ChatEndOfStream)

\* Two stream_chat calls and a list_models call, interleaved in every way
ConcResponses ==
    { [kind |-> "http_error", data |-> <<>>] }
        \cup { [kind |-> "ok", data |-> <<e>>] : e \in RemoteEntries }

InitConc ==
    /\ homeDir = TRUE
    /\ settingsFile \in ChatSettingsFiles
    /\ processEnv \in ChatProcessEnvs
    /\ remote \in ConcResponses
    /\ InitCalls
    /\ IdleMerge
    /\ IdleMask
    /\ IdleConc
    /\ IdleReq
    /\ IdleBookmarks
    /\ IdleMetadata

NextConc ==
    \/ \E p \in CallIds : ConcCall(p)
    \/ \E p \in CallIds : ConcSendFails(p)
    \/ \E p \in CallIds : ConcErrorStatus(p)
    \/ \E p \in CallIds : ConcSuccessStatus(p)
    \/ \E p \in CallIds : ConcNextLine(p)
    \/ \E p \in CallIds : ConcEndOfStream(p)
    \/ \E p \in CallIds : ConcReadError(p)
    \/ ListModelsCall
    \/ ListModelsFetched

SpecConc == InitConc /\ [][NextConc]_vars

----
\* The claims about credential resolution (SpecCred)

\* What the settings file supplies for a key of its env map: nothing unless
\* the file is found and parses
SettingsValue(name) ==
    IF homeDir /\ settingsFile.status = "ok"
    THEN settingsFile.content.env[name]
    ELSE None

\* The first non-empty value of a sequence of optional strings, else d
RECURSIVE FirstNonEmpty(_, _)
FirstNonEmpty(layers, d) ==
    IF layers = <<>> THEN d
    ELSE IF Head(layers) /= None /\ Head(layers)[1] /= "" THEN Head(layers)[1]
    ELSE FirstNonEmpty(Tail(layers), d)

ListModelsResolved == lmPc /= "idle"

\* C1: the key list_models resolves is the first non-empty of the explicit
\* key, the settings file's ANTHROPIC_AUTH_TOKEN, the settings file's
\* ANTHROPIC_API_KEY and the environment's ANTHROPIC_API_KEY, in that order,
\* and the empty string when none is non-empty, whatever the explicit URL.
C1_KeyPrecedence ==
    ListModelsResolved =>
        lmKey = FirstNonEmpty(<<Some(lmArgs.api_key),
                                SettingsValue("ANTHROPIC_AUTH_TOKEN"),
                                SettingsValue("ANTHROPIC_API_KEY"),
                                processEnv.ANTHROPIC_API_KEY>>, "")

\* C2: the base URL list_models resolves is the first non-empty of the
\* explicit URL, the settings file's ANTHROPIC_BASE_URL and the environment's
\* ANTHROPIC_BASE_URL, in that order, and the default URL when none is
\* non-empty, whatever the explicit key.
C2_UrlPrecedence ==
    ListModelsResolved =>
        lmUrl = FirstNonEmpty(<<Some(lmArgs.base_url),
                                SettingsValue("ANTHROPIC_BASE_URL"),
                                processEnv.ANTHROPIC_BASE_URL>>, DEFAULT_BASE_URL)

\* C3: the base URL of every resolved credential is non-empty, in list_models
\* and in stream_chat.
C3_UrlNeverEmpty ==
    /\ ListModelsResolved => lmUrl /= ""
    /\ chatPc /= "Idle" => chatCred[2] /= ""

\* C4: without a home directory credential resolution fails, and list_models
\* returns that failure as an error instead of a model list.
C4_HomeErrorSurfaced ==
    /\ (cfgResult.called /\ ~homeDir) => ~cfgResult.ok
    /\ (lmPc = "returned" /\ ~homeDir) => ~lmResult.ok

EnvKeyOrEmpty == FirstNonEmpty(<<processEnv.ANTHROPIC_API_KEY>>, "")

EnvUrlOrDefault == FirstNonEmpty(<<processEnv.ANTHROPIC_BASE_URL>>, DEFAULT_BASE_URL)

\* C5: with a home directory, a settings file that is missing, unreadable or
\* unparseable is no error: read_cli_config succeeds with the environment's
\* key and URL (else no key and the default URL), as for an empty settings
\* file, and get_credentials (list_models without explicit arguments) yields
\* the environment's key and URL, or the empty key and the default URL.
C5_BadSettingsFileIsEmpty ==
    (homeDir /\ settingsFile.status /= "ok") =>
        /\ cfgResult.called =>
            /\ cfgResult.ok
            /\ cfgResult.has_api_key = (EnvKeyOrEmpty /= "")
            /\ cfgResult.base_url = EnvUrlOrDefault
            /\ cfgResult.default_model = ""
        /\ (ListModelsResolved /\ lmArgs.api_key = "" /\ lmArgs.base_url = "") =>
            /\ lmKey = EnvKeyOrEmpty
            /\ lmUrl = IF EnvKeyOrEmpty /= "" THEN EnvUrlOrDefault ELSE DEFAULT_BASE_URL

C5_Witness ==
    /\ homeDir
    /\ settingsFile.status = "unparseable"
    /\ cfgResult.called /\ cfgResult.ok /\ cfgResult.has_api_key
    /\ cfgResult.base_url = "http://env"
    /\ lmPc = "returned" /\ lmArgs.api_key = "" /\ lmArgs.base_url = ""
    /\ lmKey = "C" /\ lmUrl = "http://env"

----
\* The claims about the streaming chat (SpecChat)

\* No layer of the chain supplies a key
NoKeyResolvable ==
    FirstNonEmpty(<<SettingsValue("ANTHROPIC_AUTH_TOKEN"),
                    SettingsValue("ANTHROPIC_API_KEY"),
                    processEnv.ANTHROPIC_API_KEY>>, "") = ""

\* C6: when no key is resolvable from any layer, stream_chat returns the
\* credential error, sends no request and never calls on_chunk.
C6_NoCredentialGuard ==
    (NoKeyResolvable /\ chatPc /= "Idle") =>
        /\ chatPc = "Returned"
        /\ ~chatResult.ok
        /\ chatResult.err = "No API key found for Claude"
        /\ chatRequests = 0
        /\ chunks = <<>>

C6_Witness ==
    /\ NoKeyResolvable
    /\ homeDir /\ settingsFile.status = "ok"
    /\ processEnv.ANTHROPIC_API_KEY = Some("")
    /\ chatPc = "Returned"
    /\ chatResult.err = "No API key found for Claude"
    /\ chatRequests = 0

\* C7: an I/O error while the body is read ends stream_chat with a transport
\* error; success is returned only from a [DONE] line or an error-free end of
\* the byte stream.
C7_ReadErrorFails ==
    /\ (chatPc = "Returned" /\ chatIoError) =>
        (~chatResult.ok /\ chatResult.err = "Anthropic API request failed")
    /\ (chatPc = "Returned" /\ chatResult.ok) =>
        (chatDone \/ (~chatIoError /\ chatPos = Len(chatBody)))

\* A line that ends the stream: after trimming it is "data: " and exactly [DONE]
IsDoneLine(raw) ==
    starts_with_data(trim(raw)) /\ payload(trim(raw)) = <<"[DONE]">>

\* A data line whose payload is not JSON
IsBadJsonLine(raw) ==
    /\ starts_with_data(trim(raw))
    /\ ~IsDoneLine(raw)
    /\ from_str(payload(trim(raw))) = None

\* A line that carries a delta: a data line whose payload parses, has type
\* content_block_delta and a non-empty string delta.text
IsDeltaLine(raw) ==
    /\ starts_with_data(trim(raw))
    /\ ~IsDoneLine(raw)
    /\ from_str(payload(trim(raw))) /= None
    /\ LET json == from_str(payload(trim(raw)))[1]
       IN  /\ json.type = Some("content_block_delta")
           /\ json.text /= None
           /\ json.text[1] /= ""

DeltaText(raw) == from_str(payload(trim(raw)))[1].text[1]

\* The lines before the first [DONE] line
BeforeDone(lines) ==
    LET dones == {i \in 1..Len(lines) : IsDoneLine(lines[i])}
        first == IF dones = {} THEN Len(lines) + 1
                 ELSE CHOOSE i \in dones : \A j \in dones : i <= j
    IN  SubSeq(lines, 1, first - 1)

\* The delta texts of the delta lines before the first [DONE] line, in order
ExpectedChunks(lines) ==
    LET deltas == SelectSeq(BeforeDone(lines), IsDeltaLine)
    IN  [i \in 1..Len(deltas) |-> DeltaText(deltas[i])]

\* C8: the on_chunk calls are, in arrival order, the delta texts of exactly
\* the delta lines before the first [DONE] line: at every moment those of the
\* lines read so far, and at an error-free return those of the whole body.
C8_ChunksAreDeltasInOrder ==
    /\ chunks = ExpectedChunks(SubSeq(chatBody, 1, chatPos))
    /\ (chatPc = "Returned" /\ chatResult.ok /\ ~chatIoError) =>
        chunks = ExpectedChunks(chatBody)

C8_Witness ==
    /\ chatPc = "Returned" /\ chatResult.ok /\ ~chatIoError
    /\ Len(chatBody) = 3
    /\ IsDeltaLine(chatBody[1]) /\ ~IsDeltaLine(chatBody[2]) /\ IsDeltaLine(chatBody[3])
    /\ ~IsBadJsonLine(chatBody[2])
    /\ chunks = <<"there", "Hi">>

\* C9: a [DONE] line, or the error-free end of the stream, ends stream_chat
\* with success: no line is read past a [DONE] line, so on_chunk is never
\* called for a line that follows it.
C9_DoneCompletes ==
    /\ chatPc = "Streaming" =>
        \A i \in 1..chatPos : ~IsDoneLine(chatBody[i])
    /\ chatDone <=>
        /\ chatPos >= 1
        /\ IsDoneLine(chatBody[chatPos])
    /\ chatDone =>
        /\ chatPc = "Returned"
        /\ chatResult.ok
        /\ \A i \in 1..(chatPos - 1) : ~IsDoneLine(chatBody[i])
        /\ Len(chunks) = Cardinality({i \in 1..(chatPos - 1) : IsDeltaLine(chatBody[i])})
    /\ (chatPc = "Returned" /\ chatStatus = 200 /\ ~chatIoError
            /\ chatPos = Len(chatBody)) => chatResult.ok

C9_Witness ==
    /\ chatDone /\ chatPc = "Returned" /\ chatResult.ok
    /\ chatPos = 2 /\ Len(chatBody) = 3
    /\ IsDeltaLine(chatBody[1]) /\ IsDeltaLine(chatBody[3])
    /\ chunks = <<"Hi">>

\* The body without its data lines that are not JSON
WithoutBadJson(lines) == SelectSeq(lines, LAMBDA l : ~IsBadJsonLine(l))

\* C10: a data line whose payload is not JSON never ends the stream: the
\* call returns right after such a line only at the end of the stream or at a
\* read error, and an error-free call delivers what it delivers for the body
\* without that line.
C10_BadJsonTolerated ==
    /\ (chatPc = "Returned" /\ chatPos >= 1 /\ IsBadJsonLine(chatBody[chatPos])) =>
        (~chatDone /\ (chatIoError \/ chatPos = Len(chatBody)))
    /\ (chatPc = "Returned" /\ chatResult.ok /\ ~chatIoError
            /\ \E i \in 1..Len(chatBody) : IsBadJsonLine(chatBody[i])) =>
        /\ chunks = ExpectedChunks(WithoutBadJson(chatBody))
        /\ (chatDone \/ chatPos = Len(chatBody))

C10_Witness ==
    /\ chatPc = "Returned" /\ chatResult.ok /\ ~chatIoError /\ ~chatDone
    /\ Len(chatBody) = 3
    /\ IsDeltaLine(chatBody[1]) /\ IsBadJsonLine(chatBody[2]) /\ IsDeltaLine(chatBody[3])
    /\ chunks = <<"Hi", "there">>

IsPrefix(a, b) == Len(a) <= Len(b) /\ a = SubSeq(b, 1, Len(a))

\* C11 as stated: the error of a response that is not a success carries the
\* status code and the response body.
C11_ErrorCarriesBody ==
    (chatPc = "Returned" /\ chatStatus /= 0 /\ chatStatus /= 200) =>
        /\ chatResult.status = chatStatus
        /\ chatResult.text = chatErrorBody.body

\* C11 (amended): in Connecting, a response that is not a success ends the
\* call with an error that carries the status code and the response body, or
\* the empty string where the body could not be read, and a failure to send
\* ends it with the transport error; in both cases exactly one request was
\* sent and on_chunk was never called.
C11_ConnectingFailures ==
    /\ (chatPc = "Returned" /\ chatStatus /= 0 /\ chatStatus /= 200) =>
        /\ ~chatResult.ok
        /\ chatResult.err = "API Error"
        /\ chatResult.status = chatStatus
        /\ chatResult.text = IF chatErrorBody.readable THEN chatErrorBody.body ELSE ""
        /\ chatRequests = 1
        /\ chunks = <<>>
    /\ (chatPc = "Returned" /\ chatRequests = 1 /\ chatStatus = 0) =>
        /\ ~chatResult.ok
        /\ chatResult.err = "Anthropic API request failed"
        /\ chunks = <<>>
    /\ chatRequests <= 1

C11_Witness ==
    /\ chatPc = "Returned"
    /\ chatStatus = 500
    /\ chatErrorBody = [body |-> "overloaded", readable |-> TRUE]
    /\ chatResult = ChatResult(FALSE, "API Error", 500, "overloaded")
    /\ chatRequests = 1

\* C12: once the caller has cancelled a stream_chat call no on_chunk call
\* follows, and the chunks delivered before are a prefix of those the call
\* delivers when it is not cancelled, each once: the deltas of the lines read.
C12_CancelStopsChunks ==
    /\ [](chatCancelled =>
            /\ chunks = ExpectedChunks(SubSeq(chatBody, 1, chatPos))
            /\ IsPrefix(chunks, ExpectedChunks(chatBody)))
    /\ [][chatCancelled => (chunks' = chunks /\ chatPos' = chatPos)]_vars

C12_Witness ==
    /\ chatCancelled
    /\ chatPc = "Cancelled"
    /\ chunks = <<"Hi">>
    /\ chatPos = 1
    /\ Len(chatBody) = 3
    /\ IsDeltaLine(chatBody[2]) /\ IsDeltaLine(chatBody[3])


----
\* The claims about the model catalog (SpecCatalog)

Ids(models) == [i \in 1..Len(models) |-> models[i].id]

\* C13: with an empty resolved key list_models returns Ok with exactly the
\* three built-in entries in their declared order, and sends no request.
C13_EmptyKeyBuiltinOnly ==
    (ListModelsResolved /\ lmKey = "") =>
        /\ lmPc = "returned"
        /\ lmResult.ok
        /\ lmResult.models = builtin_claude_models
        /\ Ids(lmResult.models) = << <<"claude", "-", "sonnet", "-4-6">>,
                                     <<"claude", "-", "opus", "-4-6">>,
                                     <<"claude", "-", "haiku", "-4-5">> >>
        /\ lmRequests = 0

C13_Witness ==
    /\ lmPc = "returned" /\ lmKey = ""
    /\ lmArgs.base_url = "http://explicit"
    /\ remote.kind = "ok" /\ Len(remote.data) = 2
    /\ lmResult.ok /\ Len(lmResult.models) = 3

\* C14: with a non-empty resolved key, a fetch that fails (no response, a
\* status that is not a success, a body that does not parse) gives Ok with
\* the built-in entries only; list_models never returns the failure.
C14_FetchFailureAbsorbed ==
    /\ (lmPc = "returned" /\ lmKey /= "" /\ remote.kind /= "ok") =>
        /\ lmResult.ok
        /\ lmResult.models = builtin_claude_models
        /\ lmRequests = 1
    /\ lmPc = "returned" => lmResult.ok

C14_Witness ==
    /\ lmPc = "returned" /\ lmKey = "A"
    /\ remote.kind = "http_error"
    /\ lmResult.ok /\ lmResult.models = builtin_claude_models
    /\ lmRequests = 1

\* C16: no two entries of the list that list_models returns have the same id.
C16_NoDuplicateIds ==
    lmPc = "returned" =>
        \A i, j \in 1..Len(lmResult.models) :
            i /= j => lmResult.models[i].id /= lmResult.models[j].id


Extras == SubSeq(lmResult.models, Len(builtin_claude_models) + 1, Len(lmResult.models))

\* An id that contains "claude" in any letter case
IdHasClaude(id) == \E i \in 1..Len(id) : id[i] \in {"claude", "Claude", "CLAUDE"}

IsBuiltinId(id) == \E i \in 1..Len(builtin_claude_models) : builtin_claude_models[i].id = id

\* The entries of the response that are Claude models and not built in, in
\* the order of the response
RemoteExtras ==
    SelectSeq(remote.data, LAMBDA e : IdHasClaude(e.id) /\ ~IsBuiltinId(e.id))

\* The timestamp of an entry of the response: none without created_at and
\* none for one that is not RFC 3339
CreatedOf(e) ==
    IF e.created_at /= None /\ e.created_at[1].valid
    THEN Some(e.created_at[1].timestamp)
    ELSE None

Fetched == lmPc = "returned" /\ lmKey /= "" /\ remote.kind = "ok"

C19_OnlyClaudeExtras ==
    /\ lmPc = "returned" =>
        \A i \in 1..Len(lmResult.models) :
            (\A k \in 1..Len(builtin_claude_models) :
                 lmResult.models[i] /= builtin_claude_models[k])
                => IdHasClaude(lmResult.models[i].id)
    /\ Fetched =>
        {Extras[i].id : i \in 1..Len(Extras)}
            = {RemoteExtras[i].id : i \in 1..Len(RemoteExtras)}

C19_Witness ==
    /\ Fetched
    /\ Len(remote.data) = 2
    /\ remote.data[1].id = <<"gpt", "-4">>
    /\ remote.data[2].id = <<"CLAUDE", "-", "SONNET", "-3-5">>
    /\ Len(lmResult.models) = 4
    /\ lmResult.models[4].id = <<"CLAUDE", "-", "SONNET", "-3-5">>


\* C17: mask_key returns, without failing, "*" once per character for a key
\* of at most 8 characters, and for a longer key its first 3 characters, then
\* "...", then its last 4 characters, for every key, multi-byte characters
\* included.
C17_MaskShowsOnlyEnds ==
    maskPc = "done" =>
        LET n == Len(maskKey)
        IN  /\ ~maskResult.panicked
            /\ n <= 8 => maskResult.out = [i \in 1..n |-> "*"]
            /\ n > 8 => maskResult.out
                            = SubSeq(maskKey, 1, 3) \o <<".", ".", ".">>
                                  \o SubSeq(maskKey, n - 3, n)


\* The result of a stream_chat call from what that call alone met: the
\* credentials, the outcome of its request, its response
ResultAlone(c) ==
    IF get_credentials(homeDir, settingsFile, processEnv)[1] = ""
    THEN ChatResult(FALSE, "No API key found for Claude", 0, "")
    ELSE IF c.requests = 0
    THEN ChatResult(FALSE, "Failed to create HTTP client", 0, "")
    ELSE IF c.status = 0
    THEN ChatResult(FALSE, "Anthropic API request failed", 0, "")
    ELSE IF c.status /= 200
    THEN ChatResult(FALSE, "API Error", c.status,
                    IF c.errorBody.readable THEN c.errorBody.body ELSE "")
    ELSE ChatResult(TRUE, "", 0, "")

\* The result of list_models from its arguments, the configuration and the
\* response to its own request
ListAlone ==
    LET r == ResolvedKeyUrl(lmArgs.api_key, lmArgs.base_url,
                            homeDir, settingsFile, processEnv)
        fetched == fetch_anthropic_models(remote)
    IN  [ok |-> TRUE,
         models |-> IF r[1] = "" \/ ~fetched.ok THEN builtin_claude_models
                    ELSE merge_models(builtin_claude_models, fetched.models)]

\* C20: stream_chat calls and a list_models call that run together do not
\* affect each other, however their steps interleave: the consumer of each
\* stream_chat call has received exactly the delta texts of the lines that
\* call has read of its own response, in order, and each call returns what
\* it returns when it runs alone.
C20_ConcurrentCallsIndependent ==
    /\ \A p \in CallIds :
        LET c == calls[p]
        IN  /\ c.chunks = ExpectedChunks(SubSeq(c.body, 1, c.pos))
            /\ (c.pc = "Returned" /\ c.result.ok /\ ~c.ioError) =>
                   c.chunks = ExpectedChunks(c.body)
            /\ c.pc = "Returned" => c.result = ResultAlone(c)
            /\ c.pc /= "Returned" => c.result = NoChatResult
    /\ lmPc = "returned" => lmResult = ListAlone
    /\ lmPc /= "returned" => lmResult = NoResult

C20_Witness ==
    /\ calls[1].pc = "Streaming" /\ calls[1].pos = 1 /\ calls[1].chunks = <<"there">>
    /\ calls[2].pc = "Returned" /\ calls[2].done /\ calls[2].chunks = <<"Hi">>
    /\ lmPc = "fetching"


\* C21: a stream_chat call whose response body is a finite sequence of lines
\* eventually returns, with success or with an error; once it has returned,
\* no on_chunk call and no read of a line follows, and its result stays.
C21_CallTerminates ==
    /\ (chatPc \in {"Connecting", "Streaming"}) ~> (chatPc = "Returned")
    /\ [][chatPc = "Returned" =>
            /\ chatPc' = "Returned"
            /\ chunks' = chunks
            /\ chatPos' = chatPos
            /\ chatResult' = chatResult]_vars

C21_Witness ==
    /\ chatPc = "Returned" /\ chatResult.ok
    /\ chatStatus = 200 /\ ~chatIoError /\ ~chatDone
    /\ Len(chatBody) = MaxLines /\ chatPos = Len(chatBody)
    /\ Len(chunks) = 2


\* C22: the messages array of the request body has as many elements as the
\* caller's message sequence, and its i-th element carries the role and the
\* content of the caller's i-th message.
C22_MessagesPreserved ==
    reqPc = "built" =>
        /\ Len(reqBody.messages) = Len(reqMessages)
        /\ \A i \in 1..Len(reqMessages) :
            /\ DOMAIN reqBody.messages[i] = {"role", "content"}
            /\ reqBody.messages[i].role = JsonString(reqMessages[i].role)
            /\ reqBody.messages[i].content = JsonString(reqMessages[i].content)

C22_Witness ==
    /\ reqPc = "built"
    /\ Len(reqMessages) = MaxMsgs
    /\ reqMessages[1] = ChatMsg("assistant", "hi")
    /\ reqMessages[2] = ChatMsg("user", "")
    /\ reqMessages[3] = ChatMsg("user", "")
    /\ Len(reqBody.messages) = MaxMsgs


\* C23: a save is an atomic write: under every interleaving of savers and
\* readers the store file holds the complete content it had before or the
\* complete content of one save, and no save fails because of another save.
C23_SaveIsAtomic ==
    /\ bmFs.store.exists => bmFs.store.data \in bmSaved
    /\ \A p \in Procs : bmProc[p].result /= "Failed to rename bookmarks file"


\* No two bookmarks of a list have the same source, session and message
NoDuplicateKeys(bookmarks) ==
    \A i, j \in 1..Len(bookmarks) :
        BookmarkKey(bookmarks[i]) = BookmarkKey(bookmarks[j]) => i = j

\* C24: from a store without duplicates, after any sequence and any
\* interleaving of add_bookmark and remove_bookmark calls the store has no
\* two bookmarks with the same source, session and message.
C24_NoDuplicateBookmarks ==
    NoDuplicateKeys(load_bookmarks(bmFs))

C24_Witness ==
    /\ \A p \in Procs :
        /\ bmProc[p].op = "add" /\ bmProc[p].result = "Ok"
        /\ bmProc[p].seen = NoFile
        /\ BookmarkKey(bmProc[p].bookmark) = <<"claude", "s1", Some("m1")>>
    /\ Len(load_bookmarks(bmFs)) = 1


\* The first call of caller p has returned Ok, and p made no other call
FirstCallOk(p, op) ==
    /\ bmProc[p].pc = "idle"
    /\ bmProc[p].ops = ConcOps(p) - 1
    /\ bmProc[p].op = op
    /\ bmProc[p].result = "Ok"

StoredIds == {load_bookmarks(bmFs)[i].id : i \in 1..Len(load_bookmarks(bmFs))}

\* C25: no bookmark update is lost: after two add_bookmark calls for
\* different source, session and message that ran at once and both returned
\* Ok, both bookmarks are in the store; and a bookmark that a remove_bookmark
\* which returned Ok removed is not back after an add_bookmark that ran at
\* the same time.
C25_NoLostUpdate ==
    \A p, q \in Procs :
        /\ (/\ p /= q
            /\ FirstCallOk(p, "add") /\ FirstCallOk(q, "add")
            /\ BookmarkKey(bmProc[p].bookmark) /= BookmarkKey(bmProc[q].bookmark)) =>
               \E i \in 1..Len(load_bookmarks(bmFs)) :
                   load_bookmarks(bmFs)[i] = bmProc[p].bookmark
        /\ (/\ p /= q
            /\ FirstCallOk(p, "remove") /\ FirstCallOk(q, "add")
            /\ bmProc[q].bookmark.id /= bmProc[p].id) =>
               bmProc[p].id \notin StoredIds


\* The bookmarks caller p found in the store when its call began
SeenBy(p) == load_bookmarks([store |-> bmProc[p].seen, tmp |-> NoFile])

\* C26: a bookmark call that fails leaves the store as it was: add_bookmark
\* of a bookmark whose source, session and message are stored returns
\* "Bookmark already exists", remove_bookmark of an id that is not stored
\* returns "Bookmark not found", and neither writes; a remove_bookmark that
\* succeeds drops every bookmark with the id and no other.
C26_FailedCallWritesNothing ==
    \A p \in Procs :
        (bmProc[p].pc = "idle" /\ bmProc[p].op /= "none") =>
            LET before == SeenBy(p)
                stored == \E i \in 1..Len(before) :
                              BookmarkKey(before[i]) = BookmarkKey(bmProc[p].bookmark)
                found == \E i \in 1..Len(before) : before[i].id = bmProc[p].id
            IN  /\ bmProc[p].op = "add" =>
                    /\ stored <=> bmProc[p].result = "Bookmark already exists"
                    /\ stored => bmFs = [store |-> bmProc[p].seen, tmp |-> NoFile]
                /\ bmProc[p].op = "remove" =>
                    /\ ~found <=> bmProc[p].result = "Bookmark not found"
                    /\ ~found => bmFs = [store |-> bmProc[p].seen, tmp |-> NoFile]
                    /\ found =>
                        /\ bmProc[p].result = "Ok"
                        /\ load_bookmarks(bmFs)
                               = SelectSeq(before, LAMBDA b : b.id /= bmProc[p].id)

C26_Witness ==
    /\ bmProc[1].pc = "idle" /\ bmProc[1].op = "remove" /\ bmProc[1].result = "Ok"
    /\ bmProc[1].id = "i1"
    /\ Len(SeenBy(1)) = 2
    /\ Len(load_bookmarks(bmFs)) = 1
    /\ load_bookmarks(bmFs)[1].id = "t2"


\* The sessions of the metadata file, and of the file before the last call
StoredMeta == load_metadata("claude", mdFs)

MetaBefore == load_metadata("claude", mdLast.before)

\* C27: an update_session_meta that succeeds with no alias and no tags
\* removes the entry of the session, and otherwise sets it to exactly the
\* alias and tags given; the entries of the other sessions stay; from an
\* empty store, after any sequence of update_session_meta and
\* remove_session_meta calls no entry has no alias and no tags.
C27_NoEmptyEntry ==
    /\ (mdLast.op = "update" /\ mdLast.result = "Ok") =>
        /\ (mdLast.alias = None /\ mdLast.tags = <<>>) =>
               mdLast.session_id \notin DOMAIN StoredMeta
        /\ ~(mdLast.alias = None /\ mdLast.tags = <<>>) =>
               /\ mdLast.session_id \in DOMAIN StoredMeta
               /\ StoredMeta[mdLast.session_id] = SessionMeta(mdLast.alias, mdLast.tags)
        /\ \A k \in SessionIds \ {mdLast.session_id} :
               /\ k \in DOMAIN StoredMeta <=> k \in DOMAIN MetaBefore
               /\ k \in DOMAIN StoredMeta => StoredMeta[k] = MetaBefore[k]
    /\ \A k \in DOMAIN StoredMeta :
           ~(StoredMeta[k].alias = None /\ StoredMeta[k].tags = <<>>)

C27_Witness ==
    /\ mdLast.op = "update" /\ mdLast.result = "Ok"
    /\ mdLast.session_id = "s1" /\ mdLast.alias = None /\ mdLast.tags = <<>>
    /\ "s1" \in DOMAIN MetaBefore
    /\ DOMAIN StoredMeta = {"s2"}
    /\ StoredMeta["s2"] = SessionMeta(Some(""), <<>>)


====
